---- MODULE Spec2Model ----
(***************************************************************************)
(* A model of the two-player Monte Carlo Tree Search engine (MCTS.py) and  *)
(* of the tic-tac-toe game it is played on (tic_tac_toe.py).               *)
(*                                                                         *)
(* Representation.  A board is the Python list of three rows of three      *)
(* cells; Python's state[row][col] is state[row + 1][col + 1] here.  A     *)
(* tree node is a record in the arena `nodes`; a Python reference to a     *)
(* node is its index in the arena and None is NoNode.  A Python exception  *)
(* is the name of its type and cause in `raised` (a call) or `error` (the  *)
(* engine).                                                                *)
(***************************************************************************)
EXTENDS Integers, Sequences, FiniteSets, TLC

(***************************************************************************)
(* Bounds of the model.                                                    *)
(***************************************************************************)
\* The largest iteration budget a search on a small board is started with.
MaxIter == 4
\* The largest number of rollout simulations per evaluation.
MaxRollouts == 2
\* Action indices handed to make_transition range over
\* -MaxActionOff .. 8 + MaxActionOff.
MaxActionOff == 2
\* Exploration coefficients handed to the constructor in SpecCtor range
\* over -MaxCoefNano .. MaxCoefNano, in units of 1e-9.
MaxCoefNano == 60

(***************************************************************************)
(* tic_tac_toe.py                                                          *)
(***************************************************************************)
Cells == 0..2
Markers == 0..2
Players == 0..1

Row(r0, r1, r2) == <<r0, r1, r2>>

\* TicTacToe.get_initial_state
InitialState == <<Row(0, 0, 0), Row(0, 0, 0), Row(0, 0, 0)>>

\* Every 3x3 grid of markers.
AllRows == {Row(a, b, c) : a \in Markers, b \in Markers, c \in Markers}
AllBoards == {<<r0, r1, r2>> : r0 \in AllRows, r1 \in AllRows, r2 \in AllRows}

\* state[row][col]
Cell(state, row, col) == state[row + 1][col + 1]

\* The ascending sequence of the members of a set of integers.
RECURSIVE SortedSeq(_)
SortedSeq(S) ==
    IF S = {} THEN <<>>
    ELSE LET m == CHOOSE x \in S : \A y \in S : x <= y
         IN  <<m>> \o SortedSeq(S \ {m})

\* The loop of get_possible_actions from cell index k on: rows outermost,
\* columns innermost, appending row * 3 + col for every empty cell.
RECURSIVE ScanCells(_, _)
ScanCells(state, k) ==
    IF k > 8 THEN <<>>
    ELSE (IF Cell(state, k \div 3, k % 3) = 0 THEN <<k>> ELSE <<>>)
         \o ScanCells(state, k + 1)

\* A plausible slip: the scan stops one cell short.
RECURSIVE ScanCellsShort(_, _)
ScanCellsShort(state, k) ==
    IF k > 7 THEN <<>>
    ELSE (IF Cell(state, k \div 3, k % 3) = 0 THEN <<k>> ELSE <<>>)
         \o ScanCellsShort(state, k + 1)

GetPossibleActionsShort(player_idx, state) == ScanCellsShort(state, 0)

\* TicTacToe.get_possible_actions
GetPossibleActions(player_idx, state) == ScanCells(state, 0)

\* TicTacToe._check_victory
CheckVictory(state, player_marker) ==
    \/ \E row \in Cells : \A col \in Cells : Cell(state, row, col) = player_marker
    \/ \E col \in Cells : \A row \in Cells : Cell(state, row, col) = player_marker
    \/ \A i \in Cells : Cell(state, i, i) = player_marker
    \/ \A i \in Cells : Cell(state, i, 2 - i) = player_marker

\* A plausible slip: a full board is not recognised as a draw.
IsDrawNever(state) == FALSE

\* TicTacToe._is_draw
IsDraw(state) == \A row \in Cells : \A col \in Cells : Cell(state, row, col) # 0

\* copy.deepcopy(state) followed by new_state[row][col] = player_idx + 1
PlaceMarker(state, row, col, player_idx) ==
    [state EXCEPT ![row + 1][col + 1] = player_idx + 1]

\* The outcome of a call: what was raised ("none": the call returned), the
\* returned triple, and arg_state, the caller's state object after the call.
Returned(new_state, reward, done, arg_state) ==
    [raised |-> "none", new_state |-> new_state, reward |-> reward,
     done |-> done, arg_state |-> arg_state]

Raised(what, arg_state) ==
    [raised |-> what, new_state |-> <<>>, reward |-> 0,
     done |-> FALSE, arg_state |-> arg_state]

\* A plausible slip: no range check, the index wraps (Python's negative
\* indexing) and the occupied check is skipped.
MakeTransitionUnchecked(player_idx, action_idx, state) ==
    LET row == (action_idx \div 3) % 3
        col == action_idx % 3
        new_state == PlaceMarker(state, row, col, player_idx)
    IN  IF CheckVictory(new_state, player_idx + 1)
        THEN Returned(new_state, IF player_idx = 0 THEN 1 ELSE -1, TRUE, state)
        ELSE IF IsDraw(new_state)
        THEN Returned(new_state, 0, TRUE, state)
        ELSE Returned(new_state, 0, FALSE, state)

\* A plausible slip: the draw is tested before the victory.
MakeTransitionDrawFirst(player_idx, action_idx, state) ==
    LET row == action_idx \div 3
        col == action_idx % 3
    IN  IF ~(0 <= action_idx /\ action_idx <= 8)
        THEN Raised("ValueError: Invalid action index", state)
        ELSE IF Cell(state, row, col) # 0
        THEN Raised("ValueError: already occupied", state)
        ELSE LET new_state == PlaceMarker(state, row, col, player_idx)
             IN  IF IsDraw(new_state)
                 THEN Returned(new_state, 0, TRUE, state)
                 ELSE IF CheckVictory(new_state, player_idx + 1)
                 THEN Returned(new_state, IF player_idx = 0 THEN 1 ELSE -1, TRUE, state)
                 ELSE Returned(new_state, 0, FALSE, state)

\* A plausible slip: no deep copy, the marker is written into the caller's
\* state.
MakeTransitionInPlace(player_idx, action_idx, state) ==
    LET row == action_idx \div 3
        col == action_idx % 3
    IN  IF ~(0 <= action_idx /\ action_idx <= 8)
        THEN Raised("ValueError: Invalid action index", state)
        ELSE IF Cell(state, row, col) # 0
        THEN Raised("ValueError: already occupied", state)
        ELSE LET new_state == PlaceMarker(state, row, col, player_idx)
             IN  IF CheckVictory(new_state, player_idx + 1)
                 THEN Returned(new_state, IF player_idx = 0 THEN 1 ELSE -1, TRUE, new_state)
                 ELSE IF IsDraw(new_state)
                 THEN Returned(new_state, 0, TRUE, new_state)
                 ELSE Returned(new_state, 0, FALSE, new_state)

\* TicTacToe.make_transition
MakeTransition(player_idx, action_idx, state) ==
    LET row == action_idx \div 3
        col == action_idx % 3
    IN  IF ~(0 <= action_idx /\ action_idx <= 8)
        THEN Raised("ValueError: Invalid action index", state)
        ELSE IF Cell(state, row, col) # 0
        THEN Raised("ValueError: already occupied", state)
        ELSE LET new_state == PlaceMarker(state, row, col, player_idx)
             IN  IF CheckVictory(new_state, player_idx + 1)
                 THEN Returned(new_state, IF player_idx = 0 THEN 1 ELSE -1, TRUE, state)
                 ELSE IF IsDraw(new_state)
                 THEN Returned(new_state, 0, TRUE, state)
                 ELSE Returned(new_state, 0, FALSE, state)

(***************************************************************************)
(* MCTS.py: the tree                                                       *)
(***************************************************************************)
VARIABLES
    \* TwoPlayerMCTS.__init__: the argument, the outcome ("unbuilt", "built"
    \* or the exception raised) and whether warnings.warn was called.  The
    \* coefficient is held in units of 1e-9.
    exploration_coef, engine, warned,
    \* The game the engine was constructed with: TicTacToe, or an
    \* implementation of TwoPlayerGame that breaks the interface's contract.
    game,
    \* The arguments of run / get_best_action; root_state is the value the
    \* caller's state had when the call was made.
    root_state, player_idx_to_move, n_tree_iterations, n_rollout_simulations,
    \* The arena of MCTSNode objects; the root is nodes[Root].
    nodes,
    \* Where the call stands, the exception that ended it ("none": none did),
    \* and the number of iterations of run's for loop completed.
    pc, error, iter,
    \* The locals of run.
    node, player_idx, node_to_rollout, rollout_reward,
    \* The locals of rollout: the simulation index, total_reward, pid, state
    \* and the number of moves made in the current simulation.
    sim, total_reward, pid, state, moves,
    \* What get_best_action returned (NoAction: nothing yet).
    best_action,
    \* A direct call of the game's interface or of select_child_node_ucb:
    \* its arguments and outcome.
    g_call,
    \* The history of the search, kept for the properties only: the arena as
    \* it was when the current backpropagation began (before), per node the
    \* sum of the evaluation values backpropagated through it (through) and
    \* the number of times its children were assigned (expanded), the number
    \* of expansions of the current iteration (expansions) and the final
    \* rewards of the simulations of the current rollout (finals).
    hist

vars == <<exploration_coef, engine, warned, game, root_state, player_idx_to_move,
          n_tree_iterations, n_rollout_simulations, nodes, pc, error, iter,
          node, player_idx, node_to_rollout, rollout_reward, sim,
          total_reward, pid, state, moves, best_action, g_call, hist>>

engineVars == <<exploration_coef, engine, warned, game>>
argVars == <<root_state, player_idx_to_move, n_tree_iterations, n_rollout_simulations>>
runLocals == <<node, player_idx, node_to_rollout, rollout_reward>>
rolloutLocals == <<sim, total_reward, pid, state, moves>>

NoNode == 0
Root == 1

\* The history before a search: no node exists.
NoHistory ==
    [before |-> <<>>, through |-> <<>>, expanded |-> <<>>,
     expansions |-> 0, finals |-> <<>>]
NoAction == -1
NoState == <<>>

\* accumulated_value and rollout_reward are Python floats k / n for integers
\* k, n = n_rollout_simulations (a rollout's mean) or whole numbers (a
\* terminal reward).  They are held exactly, as numerators over ValueScale.
ValueScale == IF n_rollout_simulations = 0 THEN 1 ELSE n_rollout_simulations

\* The games an engine is constructed with: TicTacToe, and NeverDrawn, a
\* TwoPlayerGame that is TicTacToe except that its make_transition does not
\* signal the end of a drawn game, so that get_possible_actions returns an
\* empty list for a state that was not signalled terminal.
Games == {"TicTacToe", "NeverDrawn"}

\* self.game.get_possible_actions(player_idx, state)
GameGetPossibleActions(p, st) == GetPossibleActions(p, st)

\* self.game.make_transition(player_idx, action_idx, state)
GameMakeTransition(p, a, st) ==
    LET r == MakeTransition(p, a, st)
    IN  IF game = "NeverDrawn" /\ r.raised = "none" /\ r.done /\ r.reward = 0
        THEN [r EXCEPT !.done = FALSE]
        ELSE r

\* MCTSNode(state=, player_to_move=, parent=, terminal=, terminal_reward=)
MCTSNode(st, player_to_move, parent, terminal, terminal_reward) ==
    [state |-> st, player_to_move |-> player_to_move,
     accumulated_value |-> 0, n_visits |-> 0,
     actions |-> <<>>, children_nodes |-> <<>>,
     parent |-> parent, terminal |-> terminal,
     terminal_reward |-> terminal_reward]

\* A plausible slip: the player index is not flipped.
ChangePlayerIdxSame(p) == p

\* TwoPlayerMCTS.change_player_idx
ChangePlayerIdx(p) == 1 - p

(***************************************************************************)
(* MCTS.py: TwoPlayerMCTS.__init__                                         *)
(***************************************************************************)
\* One, in the units exploration_coef is held in.
CoefOne == 10^9

\* numpy.isclose's default absolute tolerance, 1e-8, in those units; with
\* the second argument 0 the relative tolerance adds nothing.
IsCloseAtol == 10

\* np.isclose(a, 0): abs(a - 0) <= atol + rtol * abs(0)
IsCloseToZero(a) == (IF a < 0 THEN -a ELSE a) <= IsCloseAtol

\* A plausible slip: the coefficient is compared with 0 exactly.
WarnsExact(coef) == coef = 0

\* np.isclose(exploration_coef, 0), the condition of the warning
Warns(coef) == IsCloseToZero(coef)

\* A plausible slip: 0 is rejected too.
RejectsNonPositive(coef) == coef <= 0

\* exploration_coef < 0, the condition of the ValueError
Rejects(coef) == coef < 0

\* TwoPlayerMCTS(game, exploration_coef)
Construct ==
    /\ engine = "unbuilt"
    /\ IF Rejects(exploration_coef)
       THEN /\ engine' = "ValueError: exploration_coef must be greater than 0"
            /\ warned' = FALSE
       ELSE /\ engine' = "built"
            /\ warned' = Warns(exploration_coef)
    /\ UNCHANGED <<exploration_coef, game, argVars, nodes, pc, error, iter,
                   runLocals, rolloutLocals, best_action, g_call, hist>>

(***************************************************************************)
(* MCTS.py: TwoPlayerMCTS.select_child_node_ucb                            *)
(***************************************************************************)
\* np.sqrt(np.log(N) / n) in units of 1e-6, rounded down, for N, n in 1..6.
SqrtLogRatioMicro ==
    << <<0, 0, 0, 0, 0, 0>>,
       <<832554, 588705, 480675, 416277, 372329, 339888>>,
       <<1048147, 741151, 605147, 524073, 468745, 427904>>,
       <<1177410, 832554, 679777, 588705, 526553, 480675>>,
       <<1268636, 897061, 732447, 634318, 567351, 517918>>,
       <<1338566, 946509, 772821, 669283, 598625, 546467>> >>

\* exploration_coef * np.sqrt(np.log(node.n_visits) / child.n_visits), in
\* units of 1e-6 (exact for a coefficient that is a multiple of 1e-3).
ExplorationBonusMicro(parent_visits, child_visits) ==
    ((exploration_coef \div 10^6) * SqrtLogRatioMicro[parent_visits][child_visits])
        \div 1000

\* A plausible slip: the exploration term is added, as when maximising.
ScoreNumBonusAdded(parent, child) ==
    child.accumulated_value * 10^6
    + ExplorationBonusMicro(parent.n_visits, child.n_visits) * ValueScale * child.n_visits

\* The numerator of a visited child's score
\*   child.accumulated_value / child.n_visits - exploration_bonus
\* over the positive denominator 10^6 * ValueScale * child.n_visits.
ScoreNum(parent, child) ==
    child.accumulated_value * 10^6
    - ExplorationBonusMicro(parent.n_visits, child.n_visits) * ValueScale * child.n_visits

\* A plausible slip: an unvisited child scores +inf.
ScoreLeqUnvisitedLast(parent, ci, cj) ==
    IF cj.n_visits = 0 THEN TRUE
    ELSE IF ci.n_visits = 0 THEN FALSE
    ELSE ScoreNum(parent, ci) * cj.n_visits <= ScoreNum(parent, cj) * ci.n_visits

\* action_scores[i] <= action_scores[j]; an unvisited child scores -inf.
ScoreLeq(parent, ci, cj) ==
    IF ci.n_visits = 0 THEN TRUE
    ELSE IF cj.n_visits = 0 THEN FALSE
    ELSE ScoreNum(parent, ci) * cj.n_visits <= ScoreNum(parent, cj) * ci.n_visits

\* np.where(action_scores == action_scores.min())[0], as positions 1..len
BestIndices(n) ==
    LET kids == nodes[n].children_nodes
    IN  {i \in 1..Len(kids) :
            \A j \in 1..Len(kids) :
                ScoreLeq(nodes[n], nodes[kids[i]], nodes[kids[j]])}

\* select_child_node_ucb(node): what it raises and the positions
\* np.random.choice may return.
SelectChildNodeUcb(n) ==
    IF nodes[n].n_visits <= 0
    THEN [raised |-> "AssertionError: Parent node n_visits must be > 0.", indices |-> {}]
    ELSE IF Len(nodes[n].children_nodes) = 0
    THEN [raised |-> "ValueError: zero-size array to reduction operation minimum", indices |-> {}]
    ELSE [raised |-> "none", indices |-> BestIndices(n)]

(***************************************************************************)
(* MCTS.py: TwoPlayerMCTS.run, rollout and get_best_action                 *)
(***************************************************************************)
\* The boards a search is started on, besides the empty one.
\* Three empty cells (2, 5, 6): player 0 wins at 2, player 1 wins at 5.
BoardThree == <<Row(1, 1, 0), Row(2, 2, 0), Row(0, 1, 2)>>
\* Two empty cells (6, 8): player 0 wins at 8.
BoardTwo == <<Row(1, 2, 1), Row(2, 2, 1), Row(0, 1, 0)>>
\* One empty cell (8): filling it is a draw for either player.
BoardOneDraw == <<Row(1, 2, 1), Row(1, 2, 2), Row(2, 1, 0)>>
\* One empty cell (2): player 0 wins by filling the board.
BoardOneWin == <<Row(1, 1, 0), Row(2, 2, 1), Row(1, 2, 2)>>
\* No empty cell: the game returns no legal action.
BoardFull == <<Row(1, 2, 1), Row(1, 2, 2), Row(2, 1, 1)>>

SmallBoards == {BoardThree, BoardTwo, BoardOneDraw, BoardOneWin, BoardFull}

\* The arguments (state, player_idx, n_tree_iterations,
\* n_rollout_simulations) of the calls made: small boards with every budget
\* up to MaxIter; the empty board (for TicTacToe only) with player 0 to
\* move, the budgets 0 and 1 and one rollout simulation.
RunInputs ==
    (SmallBoards \X Players \X (0..MaxIter) \X (0..MaxRollouts))
    \cup ({InitialState} \X {0} \X (0..1) \X {1})

\* The exploration coefficients an engine is constructed with before a
\* search: a negative one, zero and the default 1.0.
SearchCoefs == {-CoefOne, 0, CoefOne}

\* run(state, player_idx_to_move, n_tree_iterations, n_rollout_simulations)
\* is called (directly or by get_best_action) and creates the root.
StartRun ==
    /\ engine = "built"
    /\ pc = "idle"
    /\ \E input \in RunInputs :
          /\ game = "NeverDrawn" => input[1] \in SmallBoards
          /\ root_state' = input[1]
          /\ player_idx_to_move' = input[2]
          /\ n_tree_iterations' = input[3]
          /\ n_rollout_simulations' = input[4]
          /\ nodes' = <<MCTSNode(input[1], input[2], NoNode, FALSE, 0)>>
    /\ pc' = "for"
    /\ hist' = [NoHistory EXCEPT !.through = <<0>>, !.expanded = <<0>>]
    /\ UNCHANGED <<engineVars, error, iter, runLocals, rolloutLocals,
                   best_action, g_call>>

\* for _ in range(n_tree_iterations): node = root; player_idx = ...
\* and, the range exhausted, return root.
ForIteration ==
    /\ pc = "for"
    /\ IF iter < n_tree_iterations
       THEN /\ node' = Root
            /\ player_idx' = player_idx_to_move
            /\ pc' = "select"
            /\ hist' = [hist EXCEPT !.before = <<>>, !.expansions = 0,
                                    !.finals = <<>>]
       ELSE /\ pc' = "returned"
            /\ UNCHANGED <<node, player_idx, hist>>
    /\ UNCHANGED <<engineVars, argVars, nodes, error, iter, node_to_rollout,
                   rollout_reward, rolloutLocals, best_action, g_call>>

\* One pass of  while len(node.children_nodes) != 0
Select ==
    /\ pc = "select"
    /\ Len(nodes[node].children_nodes) # 0
    /\ LET r == SelectChildNodeUcb(node)
       IN  IF r.raised # "none"
           THEN /\ pc' = "raised"
                /\ error' = r.raised
                /\ UNCHANGED <<node, player_idx>>
           ELSE /\ \E next_node_idx \in r.indices :
                      node' = nodes[node].children_nodes[next_node_idx]
                /\ player_idx' = ChangePlayerIdx(player_idx)
                /\ UNCHANGED <<pc, error>>
    /\ UNCHANGED <<engineVars, argVars, nodes, iter, node_to_rollout,
                   rollout_reward, rolloutLocals, best_action, g_call, hist>>

\* The calls of make_transition in the expansion loop, in order, each on the
\* node's state object as the calls before it left it; the loop ends at the
\* first call that raises.
RECURSIVE Transitions(_, _, _)
Transitions(p, acts, st) ==
    IF acts = <<>> THEN <<>>
    ELSE LET r == GameMakeTransition(p, Head(acts), st)
         IN  <<r>> \o (IF r.raised # "none" THEN <<>>
                       ELSE Transitions(p, Tail(acts), r.arg_state))

\* A plausible slip: a terminal node is expanded like any other.
ExpandsNever(n) == TRUE

\* if not node.terminal:
Expands(n) == ~nodes[n].terminal

\* A plausible slip: the terminal reward is stored whether or not done.
StoredRewardAlways(reward, done) == reward

\* terminal_reward=reward if done else 0.0
StoredReward(reward, done) == IF done THEN reward ELSE 0

\* A plausible slip: the list of children is not stored in the node.
AssignedChildrenForgotten(children_nodes) == <<>>

\* node.children_nodes = children_nodes
AssignedChildren(children_nodes) == children_nodes

\* The expansion of run: the children are appended to the arena.
Expand ==
    /\ pc = "select"
    /\ Len(nodes[node].children_nodes) = 0
    /\ IF Expands(node)
       THEN LET possible_actions == GameGetPossibleActions(player_idx, nodes[node].state)
                trs == Transitions(player_idx, possible_actions, nodes[node].state)
                failed == {i \in 1..Len(trs) : trs[i].raised # "none"}
                node_state == IF trs = <<>> THEN nodes[node].state
                              ELSE trs[Len(trs)].arg_state
                first == Len(nodes)
                children_nodes == [i \in 1..Len(trs) |-> first + i]
                new_nodes == [i \in 1..Len(trs) |->
                                 MCTSNode(trs[i].new_state,
                                          ChangePlayerIdx(player_idx),
                                          node,
                                          trs[i].done,
                                          StoredReward(trs[i].reward, trs[i].done))]
            IN  IF failed # {}
                THEN /\ nodes' = [nodes EXCEPT ![node].state = node_state]
                     /\ pc' = "raised"
                     /\ error' = trs[Len(trs)].raised
                     /\ UNCHANGED <<node_to_rollout, hist>>
                ELSE /\ nodes' = [nodes EXCEPT ![node].state = node_state,
                                               ![node].children_nodes =
                                                   AssignedChildren(children_nodes),
                                               ![node].actions = possible_actions]
                                 \o new_nodes
                     /\ hist' = [hist EXCEPT
                                    !.through = @ \o [i \in 1..Len(trs) |-> 0],
                                    !.expanded = [@ EXCEPT ![node] = @ + 1]
                                                 \o [i \in 1..Len(trs) |-> 0],
                                    !.expansions = @ + 1]
                     /\ IF children_nodes = <<>>
                        THEN /\ pc' = "raised"
                             /\ error' = "ValueError: 'a' cannot be empty unless no samples are taken"
                             /\ UNCHANGED node_to_rollout
                        ELSE /\ \E i \in 1..Len(children_nodes) :
                                   node_to_rollout' = children_nodes[i]
                             /\ pc' = "evaluate"
                             /\ UNCHANGED error
       ELSE /\ node_to_rollout' = node
            /\ pc' = "evaluate"
            /\ UNCHANGED <<nodes, error, hist>>
    /\ UNCHANGED <<engineVars, argVars, iter, node, player_idx, rollout_reward,
                   rolloutLocals, best_action, g_call>>

\* A plausible slip: the walk starts at the parent of the evaluated node.
BackpropStartAtParent(n) ==
    IF nodes[n].parent = NoNode THEN n ELSE nodes[n].parent

\* node = node_to_rollout, the start of the backpropagation
BackpropStart(n) == n

\* The head of rollout's  for _ in range(n_rollout_simulations)  reached
\* with k simulations done and total_reward = total: the next simulation
\* starts, or rollout returns total_reward / n_rollout_simulations and run
\* goes on to  node = node_to_rollout.  nds is the arena as the caller
\* leaves it, finals the final rewards of the simulations done.
RolloutHead(k, total, nds, finals) ==
    IF k < n_rollout_simulations
    THEN /\ sim' = k
         /\ hist' = [hist EXCEPT !.finals = finals]
         /\ total_reward' = total
         /\ pid' = nds[node_to_rollout].player_to_move
         /\ state' = nds[node_to_rollout].state
         /\ moves' = 0
         /\ pc' = "rollout"
         /\ UNCHANGED <<node, rollout_reward, error>>
    ELSE IF n_rollout_simulations = 0
    THEN /\ pc' = "raised"
         /\ error' = "ZeroDivisionError: division by zero"
         /\ hist' = [hist EXCEPT !.finals = finals]
         /\ sim' = 0 /\ total_reward' = 0 /\ pid' = 0 /\ state' = NoState /\ moves' = 0
         /\ UNCHANGED <<node, rollout_reward>>
    ELSE /\ rollout_reward' = total
         /\ node' = BackpropStart(node_to_rollout)
         /\ pc' = "backprop"
         /\ hist' = [hist EXCEPT !.finals = finals, !.before = nds]
         /\ sim' = 0 /\ total_reward' = 0 /\ pid' = 0 /\ state' = NoState /\ moves' = 0
         /\ UNCHANGED error

\* A plausible slip: every node chosen for evaluation is rolled out.
RollsOutAlways(n) == TRUE

\* if not node_to_rollout.terminal:
RollsOut(n) == ~nodes[n].terminal

\* The evaluation of run: rollout is entered, or the terminal reward taken.
Evaluate ==
    /\ pc = "evaluate"
    /\ IF RollsOut(node_to_rollout)
       THEN RolloutHead(0, 0, nodes, <<>>)
       ELSE /\ rollout_reward' = nodes[node_to_rollout].terminal_reward * ValueScale
            /\ node' = BackpropStart(node_to_rollout)
            /\ pc' = "backprop"
            /\ hist' = [hist EXCEPT !.before = nodes]
            /\ UNCHANGED <<error, rolloutLocals>>
    /\ UNCHANGED <<engineVars, argVars, nodes, iter, player_idx,
                   node_to_rollout, best_action, g_call>>

\* A plausible slip: rollout does not check the list of actions.
RolloutAbortsNever(possible_actions) == FALSE

\* if not possible_actions: raise AssertionError(...)
RolloutAborts(possible_actions) == possible_actions = <<>>

\* A plausible slip: the total is overwritten, not accumulated.
AddRewardOverwrite(total, reward) == reward

\* total_reward += reward
AddReward(total, reward) == total + reward

\* One pass of rollout's  while not game_finished  and, the game finished,
\* total_reward += reward  and the head of the for loop.
RolloutMove ==
    /\ pc = "rollout"
    /\ LET possible_actions == GameGetPossibleActions(pid, state)
       IN  IF RolloutAborts(possible_actions)
           THEN /\ pc' = "raised"
                /\ error' = "AssertionError: Rollout: got no possible action in non-terminal state"
                /\ UNCHANGED <<nodes, node, rollout_reward, rolloutLocals, hist>>
           ELSE IF possible_actions = <<>>
           THEN \* np.random.choice(possible_actions) on an empty list
                /\ pc' = "raised"
                /\ error' = "ValueError: 'a' cannot be empty unless no samples are taken"
                /\ UNCHANGED <<nodes, node, rollout_reward, rolloutLocals, hist>>
           ELSE \E i \in 1..Len(possible_actions) :
                   LET random_action == possible_actions[i]
                       r == GameMakeTransition(pid, random_action, state)
                       \* in the first move of a simulation, state is the
                       \* node's own state object
                       nds == IF moves = 0
                              THEN [nodes EXCEPT ![node_to_rollout].state = r.arg_state]
                              ELSE nodes
                   IN  /\ nodes' = nds
                       /\ IF r.raised # "none"
                          THEN /\ pc' = "raised"
                               /\ error' = r.raised
                               /\ UNCHANGED <<node, rollout_reward, rolloutLocals,
                                              hist>>
                          ELSE IF r.done
                          THEN RolloutHead(sim + 1, AddReward(total_reward, r.reward),
                                           nds, Append(hist.finals, r.reward))
                          ELSE /\ state' = r.new_state
                               /\ pid' = ChangePlayerIdx(pid)
                               /\ moves' = moves + 1
                               /\ UNCHANGED <<pc, error, node, rollout_reward,
                                              sim, total_reward, hist>>
    /\ UNCHANGED <<engineVars, argVars, iter, player_idx, node_to_rollout,
                   best_action, g_call>>

\* A plausible slip: the sign is not flipped for player 1.
BackpropValueUnsigned(n, reward) == nodes[n].accumulated_value + reward

\* node.accumulated_value += / -= rollout_reward
BackpropValue(n, reward) ==
    IF nodes[n].player_to_move = 0
    THEN nodes[n].accumulated_value + reward
    ELSE nodes[n].accumulated_value - reward

\* A plausible slip: the walk stops below the root.
BackpropNextSkipsRoot(n) ==
    IF nodes[n].parent = Root THEN NoNode ELSE nodes[n].parent

\* node = node.parent
BackpropNext(n) == nodes[n].parent

\* One pass of  while node is not None  and, at None, the end of the
\* iteration.
Backprop ==
    /\ pc = "backprop"
    /\ IF node # NoNode
       THEN /\ nodes' = [nodes EXCEPT
                            ![node].accumulated_value = BackpropValue(node, rollout_reward),
                            ![node].n_visits = @ + 1]
            /\ node' = BackpropNext(node)
            /\ hist' = [hist EXCEPT !.through[node] = @ + rollout_reward]
            /\ UNCHANGED <<pc, iter>>
       ELSE /\ iter' = iter + 1
            /\ pc' = "for"
            /\ UNCHANGED <<nodes, node, hist>>
    /\ UNCHANGED <<engineVars, argVars, error, player_idx, node_to_rollout,
                   rollout_reward, rolloutLocals, best_action, g_call>>

\* A plausible slip: argmax for argmin.
ArgMax(kids) ==
    CHOOSE i \in 1..Len(kids) :
        /\ \A j \in 1..Len(kids) :
              nodes[kids[i]].accumulated_value * nodes[kids[j]].n_visits
                  >= nodes[kids[j]].accumulated_value * nodes[kids[i]].n_visits
        /\ \A j \in 1..(i - 1) :
              nodes[kids[j]].accumulated_value * nodes[kids[i]].n_visits
                  # nodes[kids[i]].accumulated_value * nodes[kids[j]].n_visits

\* scores.argmin() over accumulated_value / n_visits of the root's
\* children: the first position holding the minimum.
ArgMin(kids) ==
    CHOOSE i \in 1..Len(kids) :
        /\ \A j \in 1..Len(kids) :
              nodes[kids[i]].accumulated_value * nodes[kids[j]].n_visits
                  <= nodes[kids[j]].accumulated_value * nodes[kids[i]].n_visits
        /\ \A j \in 1..(i - 1) :
              nodes[kids[j]].accumulated_value * nodes[kids[i]].n_visits
                  # nodes[kids[i]].accumulated_value * nodes[kids[j]].n_visits

\* get_best_action after run has returned: pick best child.
PickBest ==
    /\ pc = "returned"
    /\ LET kids == nodes[Root].children_nodes
       IN  IF \E i \in 1..Len(kids) : nodes[kids[i]].n_visits = 0
           THEN /\ pc' = "raised"
                /\ error' = "ZeroDivisionError: float division by zero"
                /\ UNCHANGED best_action
           ELSE IF kids = <<>>
           THEN /\ pc' = "raised"
                /\ error' = "ValueError: attempt to get argmin of an empty sequence"
                /\ UNCHANGED best_action
           ELSE /\ best_action' = nodes[Root].actions[ArgMin(kids)]
                /\ pc' = "done"
                /\ UNCHANGED error
    /\ UNCHANGED <<engineVars, argVars, nodes, iter, runLocals, rolloutLocals,
                   g_call, hist>>

\* No index was returned.
NoIndex == -1

\* select_child_node_ucb(node) called by the caller of run on a node of the
\* tree run returned: what it raised and the index it returned.
CallSelectChildNodeUcb ==
    /\ pc = "returned"
    /\ \E n \in 1..Len(nodes) :
          LET r == SelectChildNodeUcb(n)
          IN  IF r.raised # "none"
              THEN g_call' = [call |-> "select_child_node_ucb", node |-> n,
                              raised |-> r.raised, index |-> NoIndex]
              ELSE \E next_node_idx \in r.indices :
                      g_call' = [call |-> "select_child_node_ucb", node |-> n,
                                 raised |-> "none", index |-> next_node_idx - 1]
    /\ pc' = "called"
    /\ UNCHANGED <<engineVars, argVars, nodes, error, iter, runLocals,
                   rolloutLocals, best_action, hist>>

NoCall == [call |-> "none"]

Init ==
    /\ exploration_coef \in SearchCoefs
    /\ game \in Games
    /\ engine = "unbuilt"
    /\ warned = FALSE
    /\ root_state = NoState
    /\ player_idx_to_move = 0
    /\ n_tree_iterations = 0
    /\ n_rollout_simulations = 0
    /\ nodes = <<>>
    /\ pc = "idle"
    /\ error = "none"
    /\ iter = 0
    /\ node = NoNode
    /\ player_idx = 0
    /\ node_to_rollout = NoNode
    /\ rollout_reward = 0
    /\ sim = 0
    /\ total_reward = 0
    /\ pid = 0
    /\ state = NoState
    /\ moves = 0
    /\ best_action = NoAction
    /\ g_call = NoCall
    /\ hist = NoHistory

Next ==
    \/ Construct
    \/ StartRun
    \/ ForIteration
    \/ Select
    \/ Expand
    \/ Evaluate
    \/ RolloutMove
    \/ Backprop
    \/ PickBest
    \/ CallSelectChildNodeUcb

Spec == Init /\ [][Next]_vars

(***************************************************************************)
(* The constructor alone, over coefficients around numpy.isclose's         *)
(* tolerance.                                                              *)
(***************************************************************************)
CtorCoefs == (-MaxCoefNano..MaxCoefNano) \cup {-CoefOne, CoefOne}

InitCtor ==
    /\ exploration_coef \in CtorCoefs
    /\ game = "TicTacToe"
    /\ engine = "unbuilt"
    /\ warned = FALSE
    /\ root_state = NoState
    /\ player_idx_to_move = 0
    /\ n_tree_iterations = 0
    /\ n_rollout_simulations = 0
    /\ nodes = <<>>
    /\ pc = "idle"
    /\ error = "none"
    /\ iter = 0
    /\ node = NoNode
    /\ player_idx = 0
    /\ node_to_rollout = NoNode
    /\ rollout_reward = 0
    /\ sim = 0
    /\ total_reward = 0
    /\ pid = 0
    /\ state = NoState
    /\ moves = 0
    /\ best_action = NoAction
    /\ g_call = NoCall
    /\ hist = NoHistory

NextCtor == Construct

SpecCtor == InitCtor /\ [][NextCtor]_vars

(***************************************************************************)
(* The game alone: get_possible_actions and make_transition called on      *)
(* every 3x3 grid of markers, for either player.                           *)
(***************************************************************************)
\* The action indices handed to make_transition.
ActionInputs == (0 - MaxActionOff)..(8 + MaxActionOff)

\* game.get_possible_actions(player, state): `before` is the state the
\* caller passed, `state` the caller's state object after the call.
CallGetPossibleActions ==
    /\ g_call.call = "pending"
    /\ g_call' = [call |-> "get_possible_actions",
                  player |-> g_call.player,
                  action |-> NoAction,
                  before |-> g_call.state,
                  state |-> g_call.state,
                  actions |-> GetPossibleActions(g_call.player, g_call.state),
                  result |-> Raised("none", g_call.state)]
    /\ UNCHANGED <<engineVars, argVars, nodes, pc, error, iter, runLocals,
                   rolloutLocals, best_action, hist>>

\* game.make_transition(player, action_idx, state)
CallMakeTransition ==
    /\ g_call.call = "pending"
    /\ \E action_idx \in ActionInputs :
          LET r == MakeTransition(g_call.player, action_idx, g_call.state)
          IN  g_call' = [call |-> "make_transition",
                         player |-> g_call.player,
                         action |-> action_idx,
                         before |-> g_call.state,
                         state |-> r.arg_state,
                         actions |-> <<>>,
                         result |-> r]
    /\ UNCHANGED <<engineVars, argVars, nodes, pc, error, iter, runLocals,
                   rolloutLocals, best_action, hist>>

InitGame ==
    /\ exploration_coef = CoefOne
    /\ game = "TicTacToe"
    /\ engine = "unbuilt"
    /\ warned = FALSE
    /\ root_state = NoState
    /\ player_idx_to_move = 0
    /\ n_tree_iterations = 0
    /\ n_rollout_simulations = 0
    /\ nodes = <<>>
    /\ pc = "idle"
    /\ error = "none"
    /\ iter = 0
    /\ node = NoNode
    /\ player_idx = 0
    /\ node_to_rollout = NoNode
    /\ rollout_reward = 0
    /\ sim = 0
    /\ total_reward = 0
    /\ pid = 0
    /\ state = NoState
    /\ moves = 0
    /\ best_action = NoAction
    /\ hist = NoHistory
    /\ \E b \in AllBoards, p \in Players :
          g_call = [call |-> "pending", player |-> p, state |-> b]

NextGame ==
    \/ CallGetPossibleActions
    \/ CallMakeTransition

SpecGame == InitGame /\ [][NextGame]_vars

(***************************************************************************)
(* Properties                                                              *)
(***************************************************************************)
NodeIds == 1..Len(nodes)

\* The legal actions of the call's root state, as the game reports them.
RootActions == GetPossibleActions(player_idx_to_move, root_state)

\* run has returned its root (get_best_action or the caller may have gone
\* on from there).
RunReturned ==
    \/ pc \in {"returned", "done", "called"}
    \/ pc = "raised" /\ error \in {"ZeroDivisionError: float division by zero",
                                  "ValueError: attempt to get argmin of an empty sequence"}

\* No iteration of run is under way: the loop is at its head or has ended.
BetweenIterations == pc = "for" \/ RunReturned

\* C1: between iterations the root's n_visits is the number of iterations
\* completed and no node has more visits than its parent; once run has
\* returned, the root's n_visits is n_tree_iterations.
C1_VisitCounts ==
    BetweenIterations =>
        /\ nodes[Root].n_visits = iter
        /\ \A i \in NodeIds :
              nodes[i].parent # NoNode =>
                  nodes[i].n_visits <= nodes[nodes[i].parent].n_visits
        /\ RunReturned => nodes[Root].n_visits = n_tree_iterations

C1_Witness ==
    /\ pc = "returned"
    /\ n_tree_iterations >= 3
    /\ nodes[Root].n_visits = n_tree_iterations
    /\ \E i \in NodeIds :
          /\ nodes[i].parent # NoNode /\ nodes[i].parent # Root
          /\ nodes[i].n_visits >= 1
          /\ nodes[i].n_visits < nodes[nodes[i].parent].n_visits

\* The mean accumulated_value / n_visits of child i is at most that of
\* child j (both visited).
MeanLeq(i, j) ==
    nodes[i].accumulated_value * nodes[j].n_visits
        <= nodes[j].accumulated_value * nodes[i].n_visits

\* a is the action of the lowest-placed root child of minimal mean.
IsBestRootAction(a) ==
    LET kids == nodes[Root].children_nodes
    IN  \E i \in 1..Len(kids) :
           /\ a = nodes[Root].actions[i]
           /\ \A j \in 1..Len(kids) : MeanLeq(kids[i], kids[j])
           /\ \A j \in 1..(i - 1) : ~MeanLeq(kids[j], kids[i])

\* get_best_action has ended, with an action or an exception, after run
\* returned.
PickEnded == RunReturned /\ pc \notin {"returned", "called"}

\* C2 as stated: for every state with a legal action and every budget,
\* get_best_action returns the action of the lowest-placed root child of
\* minimal mean, a legal action of the root state.
C2_Original ==
    (PickEnded /\ RootActions # <<>>) =>
        /\ pc = "done"
        /\ IsBestRootAction(best_action)
        /\ \E k \in 1..Len(RootActions) : RootActions[k] = best_action

\* C2 amended: once run has returned on a state with a legal action,
\* get_best_action returns that action if the budget is at least the number
\* of legal actions of the root state; below it, it raises (ValueError with
\* budget 0, when the root has no children; ZeroDivisionError otherwise, at
\* the first unvisited child).
C2_BestAction ==
    (PickEnded /\ RootActions # <<>>) =>
        IF n_tree_iterations >= Len(RootActions)
        THEN /\ pc = "done"
             /\ IsBestRootAction(best_action)
             /\ \E k \in 1..Len(RootActions) : RootActions[k] = best_action
        ELSE /\ pc = "raised"
             /\ best_action = NoAction
             /\ error = IF n_tree_iterations = 0
                        THEN "ValueError: attempt to get argmin of an empty sequence"
                        ELSE "ZeroDivisionError: float division by zero"

C2_Witness ==
    /\ pc = "done"
    /\ Len(nodes[Root].children_nodes) >= 2
    /\ n_tree_iterations > Len(nodes[Root].children_nodes)
    /\ best_action = nodes[Root].actions[2]
    /\ ~MeanLeq(nodes[Root].children_nodes[1], nodes[Root].children_nodes[2])

\* C3: a terminal node has no children, is never the node rollout runs on,
\* and when it is the node evaluated the value backpropagated is its
\* terminal_reward.
C3_TerminalNodes ==
    /\ \A i \in NodeIds :
          nodes[i].terminal =>
              nodes[i].children_nodes = <<>> /\ nodes[i].actions = <<>>
    /\ pc = "rollout" => ~nodes[node_to_rollout].terminal
    /\ (pc = "backprop" /\ nodes[node_to_rollout].terminal) =>
          rollout_reward = nodes[node_to_rollout].terminal_reward * ValueScale

C3_Witness ==
    /\ pc = "backprop"
    /\ node = node_to_rollout
    /\ nodes[node_to_rollout].terminal
    /\ nodes[node_to_rollout].n_visits >= 1
    /\ nodes[node_to_rollout].terminal_reward = -1
    /\ n_rollout_simulations = 2
    /\ rollout_reward = -2

\* The cell an action index addresses is in the grid and empty.
LegalAction(b, a) ==
    /\ 0 <= a /\ a <= 8
    /\ Cell(b, a \div 3, a % 3) = 0

\* C4: make_transition raises ValueError for every action index that is
\* outside 0..8 or addresses an occupied cell, and leaves the caller's state
\* as it was.
C4_IllegalActionRaises ==
    (g_call.call = "make_transition" /\ ~LegalAction(g_call.before, g_call.action)) =>
        /\ g_call.result.raised \in {"ValueError: Invalid action index",
                                     "ValueError: already occupied"}
        /\ g_call.result.raised = "ValueError: Invalid action index"
              <=> ~(0 <= g_call.action /\ g_call.action <= 8)
        /\ g_call.state = g_call.before

C4_Witness ==
    /\ g_call.call = "make_transition"
    /\ g_call.action = -1
    /\ g_call.before[3][3] = 0
    /\ g_call.result.raised = "ValueError: Invalid action index"
    /\ g_call.state = g_call.before

\* The rows, columns and diagonals, as sets of cell indices.
Lines ==
    {{0, 1, 2}, {3, 4, 5}, {6, 7, 8},
     {0, 3, 6}, {1, 4, 7}, {2, 5, 8},
     {0, 4, 8}, {2, 4, 6}}

\* The marker fills one of the lines of board b.
HasLine(b, marker) ==
    \E line \in Lines : \A k \in line : Cell(b, k \div 3, k % 3) = marker

\* The marker fills a line of board b that runs through cell a.
CompletesLine(b, a, marker) ==
    \E line \in Lines :
        a \in line /\ \A k \in line : Cell(b, k \div 3, k % 3) = marker

Full(b) == \A k \in 0..8 : Cell(b, k \div 3, k % 3) # 0

\* Board b with the player's marker in cell a.
WithMarker(b, a, player) ==
    [row \in 1..3 |->
        [col \in 1..3 |->
            IF (row - 1) * 3 + (col - 1) = a THEN player + 1 ELSE b[row][col]]]

\* A call of make_transition with a legal action has been made.
LegalTransitionMade ==
    g_call.call = "make_transition" /\ LegalAction(g_call.before, g_call.action)

\* C5 as stated: the reward is +1 / -1 when the move completes a line for
\* the mover, otherwise 0, with done when the board is full.
C5_Original ==
    LegalTransitionMade =>
        LET r == g_call.result
            won == CompletesLine(r.new_state, g_call.action, g_call.player + 1)
        IN  /\ r.raised = "none"
            /\ r.new_state = WithMarker(g_call.before, g_call.action, g_call.player)
            /\ r.reward = (IF ~won THEN 0 ELSE IF g_call.player = 0 THEN 1 ELSE -1)
            /\ r.done = (won \/ Full(r.new_state))

\* C5 amended: the reward is +1 / -1 when the mover's marker fills a line of
\* the new board (which, when the mover had no full line before, is when
\* the move completes one), otherwise 0, with done when the board is full;
\* a win that fills the board is a win.
C5_TransitionResult ==
    LegalTransitionMade =>
        LET r == g_call.result
            won == HasLine(r.new_state, g_call.player + 1)
        IN  /\ r.raised = "none"
            /\ r.new_state = WithMarker(g_call.before, g_call.action, g_call.player)
            /\ g_call.state = g_call.before
            /\ r.reward = (IF ~won THEN 0 ELSE IF g_call.player = 0 THEN 1 ELSE -1)
            /\ r.done = (won \/ Full(r.new_state))
            /\ ~HasLine(g_call.before, g_call.player + 1) =>
                  (won <=> CompletesLine(r.new_state, g_call.action, g_call.player + 1))

C5_Witness ==
    /\ LegalTransitionMade
    /\ ~HasLine(g_call.before, g_call.player + 1)
    /\ Full(g_call.result.new_state)
    /\ g_call.player = 1
    /\ g_call.result.reward = -1
    /\ g_call.result.done

\* C6: get_possible_actions returns the indices of the empty cells in
\* ascending order, whoever the player is, and all of 0..8 on the initial
\* state.
C6_PossibleActions ==
    g_call.call = "get_possible_actions" =>
        /\ g_call.actions =
              SortedSeq({k \in 0..8 : Cell(g_call.before, k \div 3, k % 3) = 0})
        /\ g_call.state = g_call.before
        /\ g_call.before = InitialState =>
              g_call.actions = <<0, 1, 2, 3, 4, 5, 6, 7, 8>>

C6_Witness ==
    /\ g_call.call = "get_possible_actions"
    /\ g_call.player = 1
    /\ g_call.before = <<Row(1, 0, 2), Row(0, 0, 1), Row(2, 1, 0)>>
    /\ g_call.actions = <<1, 3, 4, 8>>

\* The constructor has run.
Constructed == engine # "unbuilt"

\* C7 as stated: a negative coefficient is rejected, zero is accepted with
\* a warning, every positive coefficient is accepted without one.
C7_Original ==
    Constructed =>
        /\ exploration_coef < 0 => engine # "built" /\ ~warned
        /\ exploration_coef = 0 => engine = "built" /\ warned
        /\ exploration_coef > 0 => engine = "built" /\ ~warned

\* C7 amended: a negative coefficient is rejected, a coefficient from 0 to
\* 1e-8 (numpy.isclose to 0) is accepted with a warning, every coefficient
\* above 1e-8 is accepted without one.
C7_Constructor ==
    Constructed =>
        /\ exploration_coef < 0 =>
              engine = "ValueError: exploration_coef must be greater than 0" /\ ~warned
        /\ (0 <= exploration_coef /\ exploration_coef <= IsCloseAtol) =>
              engine = "built" /\ warned
        /\ exploration_coef > IsCloseAtol => engine = "built" /\ ~warned

C7_Witness ==
    /\ engine = "built"
    /\ warned
    /\ exploration_coef > 0

\* The errors the engine raises itself for a position without actions.
ExplicitNoActionErrors ==
    {"AssertionError: Rollout: got no possible action in non-terminal state"}

\* The call has ended: get_best_action returned or an exception left it.
CallEnded == pc \in {"done", "raised"}

\* C8: get_best_action on a state without legal actions ends in an explicit
\* no-actions error, for every budget.
C8_NoActionsExplicitError ==
    (CallEnded /\ RootActions = <<>>) =>
        /\ pc = "raised"
        /\ error \in ExplicitNoActionErrors

\* C9: a step never changes state, player_to_move, terminal, terminal_reward
\* or parent of an existing node, nor removes a node; the root's state is
\* the caller's; accumulated_value and n_visits change only in
\* backpropagation, children_nodes and actions only in the expansion of a
\* node that has none.
C9_NodeFrame ==
    [][/\ Len(nodes') >= Len(nodes)
       /\ nodes' # <<>> => nodes'[Root].state = root_state'
       /\ \A i \in NodeIds :
             /\ nodes'[i].state = nodes[i].state
             /\ nodes'[i].player_to_move = nodes[i].player_to_move
             /\ nodes'[i].terminal = nodes[i].terminal
             /\ nodes'[i].terminal_reward = nodes[i].terminal_reward
             /\ nodes'[i].parent = nodes[i].parent
             /\ (nodes'[i].accumulated_value # nodes[i].accumulated_value
                 \/ nodes'[i].n_visits # nodes[i].n_visits) => pc = "backprop"
             /\ (nodes'[i].children_nodes # nodes[i].children_nodes
                 \/ nodes'[i].actions # nodes[i].actions) =>
                    /\ pc = "select" /\ i = node
                    /\ nodes[i].children_nodes = <<>> /\ nodes[i].actions = <<>>
      ]_vars

C9_Witness ==
    /\ pc = "returned"
    /\ n_tree_iterations >= 3
    /\ nodes[Root].state = root_state
    /\ \E i \in NodeIds :
          /\ nodes[i].parent # NoNode
          /\ nodes[i].children_nodes # <<>>
          /\ ~nodes[i].terminal
          /\ nodes[i].n_visits >= 1

\* C10: budget 1 and one rollout simulation on the empty board end with the
\* root visited once, one of its nine children visited once and the other
\* eight not at all.
C10_SingleIteration ==
    (RunReturned /\ root_state = InitialState
        /\ n_tree_iterations = 1 /\ n_rollout_simulations = 1) =>
        LET kids == nodes[Root].children_nodes
        IN  /\ nodes[Root].n_visits = 1
            /\ Len(kids) = 9
            /\ Cardinality({i \in 1..Len(kids) : nodes[kids[i]].n_visits = 1}) = 1
            /\ Cardinality({i \in 1..Len(kids) : nodes[kids[i]].n_visits = 0}) = 8
            /\ Len(nodes) = 10

C10_Witness ==
    /\ pc = "returned"
    /\ root_state = InitialState
    /\ n_tree_iterations = 1
    /\ n_rollout_simulations = 1
    /\ nodes[nodes[Root].children_nodes[5]].n_visits = 1
    /\ nodes[nodes[Root].children_nodes[5]].accumulated_value = 1

\* The parent chain of node n in the arena nds: n, its parent, ..., the root.
RECURSIVE ParentChain(_, _)
ParentChain(nds, n) ==
    IF n = NoNode THEN {} ELSE {n} \cup ParentChain(nds, nds[n].parent)

\* The nodes the backpropagation walk has passed so far: the part of the
\* evaluated node's parent chain below the walk's position.
Walked ==
    ParentChain(nodes, node_to_rollout) \ ParentChain(nodes, node)

\* C12: the backpropagation of an iteration walks the parent chain of the
\* evaluated node, from that node to the root inclusive.  Each node it has
\* passed has n_visits one above its value before the walk and
\* accumulated_value changed by +r where player_to_move is 0 and by -r where
\* it is 1, r being the iteration's evaluation value; every other node is as
\* it was before the walk.  At the end of the iteration the nodes passed are
\* the whole chain.
C12_Backpropagation ==
    (pc \in {"backprop", "for"} /\ hist.before # <<>>) =>
        /\ Len(nodes) = Len(hist.before)
        /\ node # NoNode => node \in ParentChain(nodes, node_to_rollout)
        /\ pc = "for" =>
              /\ Walked = ParentChain(nodes, node_to_rollout)
              /\ {Root, node_to_rollout} \subseteq Walked
        /\ \A i \in NodeIds :
              IF i \in Walked
              THEN /\ nodes[i].n_visits = hist.before[i].n_visits + 1
                   /\ nodes[i].accumulated_value =
                         hist.before[i].accumulated_value
                         + (IF nodes[i].player_to_move = 0
                            THEN rollout_reward ELSE 0 - rollout_reward)
                   /\ [nodes[i] EXCEPT !.n_visits = 0, !.accumulated_value = 0]
                         = [hist.before[i] EXCEPT !.n_visits = 0,
                                                  !.accumulated_value = 0]
              ELSE nodes[i] = hist.before[i]

\* An iteration has ended whose evaluated node lies two levels below the
\* root, with a non-zero evaluation value and a visited node off the chain.
C12_Witness ==
    /\ pc = "for"
    /\ hist.before # <<>>
    /\ rollout_reward # 0
    /\ Cardinality(ParentChain(nodes, node_to_rollout)) >= 3
    /\ \E i \in NodeIds :
          /\ i \notin ParentChain(nodes, node_to_rollout)
          /\ nodes[i].n_visits > 0
          /\ nodes[i] = hist.before[i]

\* C13 as stated: at every visited node, whichever player is to move there,
\* accumulated_value is the sum of the player-0-perspective evaluation
\* values backpropagated through it.
C13_Original ==
    \A i \in NodeIds :
        nodes[i].n_visits > 0 => nodes[i].accumulated_value = hist.through[i]

\* C13 amended: accumulated_value is kept in the frame of the player to move
\* at the node: it is the sum of the player-0-perspective evaluation values
\* backpropagated through the node where player_to_move is 0 and the
\* negation of that sum where player_to_move is 1.
C13_MoverFrame ==
    /\ Len(hist.through) = Len(nodes)
    /\ \A i \in NodeIds :
          nodes[i].accumulated_value =
              IF nodes[i].player_to_move = 0
              THEN hist.through[i] ELSE 0 - hist.through[i]

\* Nodes of either player_to_move, visited more than once, with a non-zero
\* sum backpropagated through them.
C13_Witness ==
    \E i, j \in NodeIds :
        /\ nodes[i].player_to_move = 0 /\ nodes[j].player_to_move = 1
        /\ nodes[i].n_visits >= 2 /\ nodes[j].n_visits >= 2
        /\ hist.through[i] # 0 /\ hist.through[j] # 0
        /\ nodes[j].accumulated_value = 0 - hist.through[j]

\* Visited child a of a node with n_visits = parent_visits scores strictly
\* below visited child b, a score being
\*   accumulated_value / n_visits
\*       - exploration_coef * sqrt(ln(parent_visits) / n_visits)
\* (both sides multiplied by 10^6 * ValueScale * a.n_visits * b.n_visits).
UcbScoreBelow(parent_visits, a, b) ==
    a.accumulated_value * 10^6 * b.n_visits
    - ExplorationBonusMicro(parent_visits, a.n_visits)
          * ValueScale * a.n_visits * b.n_visits
    < b.accumulated_value * 10^6 * a.n_visits
      - ExplorationBonusMicro(parent_visits, b.n_visits)
            * ValueScale * a.n_visits * b.n_visits

\* The positions (from 0) of the children of node n that attain the minimal
\* score: the unvisited children if there is one, else the visited children
\* no other child scores below.
MinimalChildren(n) ==
    LET kids == nodes[n].children_nodes
        unvisited == {i \in 1..Len(kids) : nodes[kids[i]].n_visits = 0}
    IN  IF unvisited # {}
        THEN {i - 1 : i \in unvisited}
        ELSE {i - 1 : i \in
                 {i \in 1..Len(kids) :
                     \A j \in 1..Len(kids) :
                         ~UcbScoreBelow(nodes[n].n_visits,
                                        nodes[kids[j]], nodes[kids[i]])}}

\* A node select_child_node_ucb accepts: visited, with a child.
Selectable(n) ==
    nodes[n].n_visits > 0 /\ nodes[n].children_nodes # <<>>

\* C14: select_child_node_ucb on a node with n_visits > 0 and a child
\* returns the index of a child of minimal score (an unvisited child while
\* there is one), and every such index is a possible result: so it is for a
\* call made on a node of the returned tree, and so it is for the call in
\* the selection loop of run, whose next node is a child of minimal score.
C14_UcbSelection ==
    /\ (g_call.call = "select_child_node_ucb" /\ Selectable(g_call.node)) =>
          /\ g_call.raised = "none"
          /\ g_call.index \in MinimalChildren(g_call.node)
    /\ pc = "returned" =>
          \A n \in NodeIds :
              Selectable(n) =>
                  \A i \in MinimalChildren(n) :
                      ENABLED (CallSelectChildNodeUcb
                               /\ g_call'.node = n /\ g_call'.index = i)
    /\ (pc = "select" /\ nodes[node].children_nodes # <<>>) =>
          /\ Selectable(node)
          /\ \A i \in 1..Len(nodes[node].children_nodes) :
                (i - 1 \in MinimalChildren(node))
                    <=> ENABLED (Select /\ pc' = "select"
                                 /\ node' = nodes[node].children_nodes[i])

\* A call returned the only child of minimal score of a node whose children
\* are all visited; another child has the same mean and more visits, so a
\* smaller exploration term and a higher score.
C14_Witness ==
    /\ g_call.call = "select_child_node_ucb"
    /\ Selectable(g_call.node)
    /\ g_call.raised = "none"
    /\ MinimalChildren(g_call.node) = {g_call.index}
    /\ LET kids == nodes[g_call.node].children_nodes
           chosen == kids[g_call.index + 1]
       IN  /\ \A i \in 1..Len(kids) : nodes[kids[i]].n_visits > 0
           /\ \E j \in 1..Len(kids) :
                 /\ MeanLeq(kids[j], chosen) /\ MeanLeq(chosen, kids[j])
                 /\ nodes[kids[j]].n_visits > nodes[chosen].n_visits

\* Node n has been expanded: its children were assigned.
Expanded(n) == hist.expanded[n] > 0

\* C15: an expanded node has one child per legal action of its state for
\* its player_to_move, in the order the game lists them, actions[i] being
\* the action of children_nodes[i]; the child's state is the state the game
\* returns for that action, its parent the expanded node, its
\* player_to_move the other player, its terminal flag the game's done and
\* its terminal_reward the game's reward if done, else 0.  The player index
\* run tracks while descending is the player_to_move of the node it is at.
C15_Expansion ==
    /\ pc = "select" => player_idx = nodes[node].player_to_move
    /\ \A n \in NodeIds :
          Expanded(n) =>
              LET kids == nodes[n].children_nodes
                  mover == nodes[n].player_to_move
              IN  /\ nodes[n].actions = GameGetPossibleActions(mover, nodes[n].state)
                  /\ Len(kids) = Len(nodes[n].actions)
                  /\ \A i, j \in 1..Len(kids) : i # j => kids[i] # kids[j]
                  /\ \A i \in 1..Len(kids) :
                        LET r == GameMakeTransition(mover, nodes[n].actions[i],
                                                    nodes[n].state)
                            child == nodes[kids[i]]
                        IN  /\ r.raised = "none"
                            /\ child.state = r.new_state
                            /\ child.state = WithMarker(nodes[n].state,
                                                        nodes[n].actions[i], mover)
                            /\ child.parent = n
                            /\ child.player_to_move = 1 - mover
                            /\ child.terminal = r.done
                            /\ child.terminal_reward = (IF r.done THEN r.reward ELSE 0)
    /\ \A n \in NodeIds :
          ~Expanded(n) => nodes[n].children_nodes = <<>> /\ nodes[n].actions = <<>>
    /\ \A c \in NodeIds :
          c # Root =>
              /\ nodes[c].parent \in NodeIds
              /\ \E i \in 1..Len(nodes[nodes[c].parent].children_nodes) :
                    nodes[nodes[c].parent].children_nodes[i] = c

\* A node below the root, with player 1 to move, has been expanded into a
\* terminal child with a non-zero terminal_reward and a non-terminal child.
C15_Witness ==
    \E n \in NodeIds :
        /\ n # Root
        /\ Expanded(n)
        /\ nodes[n].player_to_move = 1
        /\ Len(nodes[n].children_nodes) >= 2
        /\ \E i, j \in 1..Len(nodes[n].children_nodes) :
              /\ nodes[nodes[n].children_nodes[i]].terminal
              /\ nodes[nodes[n].children_nodes[i]].terminal_reward # 0
              /\ ~nodes[nodes[n].children_nodes[j]].terminal
              /\ nodes[nodes[n].children_nodes[j]].player_to_move = 0

\* C16: a node is expanded at most once and an iteration expands at most
\* one node; a node's children_nodes is empty until the node is expanded and
\* neither it nor actions changes afterwards; actions and children_nodes
\* have the same length at all times.
C16_ExpandedOnce ==
    /\ [](/\ hist.expansions <= 1
          /\ \A n \in NodeIds :
                /\ hist.expanded[n] <= 1
                /\ ~Expanded(n) => nodes[n].children_nodes = <<>>
                /\ Len(nodes[n].actions) = Len(nodes[n].children_nodes))
    /\ [][\A n \in NodeIds :
             /\ Expanded(n) =>
                   /\ nodes'[n].children_nodes = nodes[n].children_nodes
                   /\ nodes'[n].actions = nodes[n].actions
                   /\ hist'.expanded[n] = hist.expanded[n]
             /\ nodes'[n].children_nodes # nodes[n].children_nodes =>
                   /\ pc = "select" /\ node = n
                   /\ hist'.expanded[n] = 1
                   /\ hist'.expansions = 1]_vars

\* In the third iteration or later a node below the root is expanded, the
\* root and another node having been expanded in iterations before.
C16_Witness ==
    /\ pc = "evaluate"
    /\ iter >= 2
    /\ hist.expansions = 1
    /\ node # Root
    /\ Expanded(node)
    /\ nodes[node].children_nodes # <<>>
    /\ Cardinality({n \in NodeIds : Expanded(n)}) >= 3

\* The failures select_child_node_ucb raises by its own check.
AssertionFailures == {"AssertionError: Parent node n_visits must be > 0."}

\* C17: a call of select_child_node_ucb on a node with n_visits = 0 or
\* without children ends in an assertion failure and returns no index.
C17_SelectionFailsFast ==
    (g_call.call = "select_child_node_ucb" /\ ~Selectable(g_call.node)) =>
        /\ g_call.index = NoIndex
        /\ g_call.raised \in AssertionFailures

\* No step has changed n_visits or accumulated_value of a node.
StatisticsUnchanged ==
    \A n \in NodeIds :
        /\ nodes'[n].n_visits = nodes[n].n_visits
        /\ nodes'[n].accumulated_value = nodes[n].accumulated_value

\* rollout is about to ask the game for the actions of a state that was not
\* signalled terminal, and the game will return none.
RolloutWithoutActions ==
    pc = "rollout" /\ GameGetPossibleActions(pid, state) = <<>>

\* run is about to expand a node that was not signalled terminal, and the
\* game will return no action for its state.
ExpansionWithoutActions ==
    /\ pc = "select"
    /\ nodes[node].children_nodes = <<>>
    /\ ~nodes[node].terminal
    /\ GameGetPossibleActions(player_idx, nodes[node].state) = <<>>

\* C18: when the game returns no legal action for a state that was not
\* signalled terminal, the search ends there with an error: in rollout with
\* the AssertionError rollout raises itself, in the expansion with the
\* ValueError of np.random.choice on the empty list of children.  No value
\* is backpropagated in that iteration: no node's statistics change in the
\* step, nothing follows the error, and the search ends with the walk of the
\* iteration never begun and the root's n_visits at the number of iterations
\* completed.
C18_NoActionsAbort ==
    /\ [][/\ RolloutWithoutActions =>
                /\ pc' = "raised"
                /\ error' = "AssertionError: Rollout: got no possible action in non-terminal state"
                /\ iter' = iter
                /\ StatisticsUnchanged
          /\ ExpansionWithoutActions =>
                /\ pc' = "raised"
                /\ error' = "ValueError: 'a' cannot be empty unless no samples are taken"
                /\ iter' = iter
                /\ StatisticsUnchanged
          /\ pc = "raised" => UNCHANGED vars]_vars
    /\ []((pc = "raised"
           /\ error \in {"AssertionError: Rollout: got no possible action in non-terminal state",
                         "ValueError: 'a' cannot be empty unless no samples are taken"}) =>
              /\ hist.before = <<>>
              /\ iter < n_tree_iterations
              /\ nodes[Root].n_visits = iter
              /\ best_action = NoAction)

\* After at least one completed iteration, a rollout reached a full board
\* the game had not signalled as terminal, and the search ended with
\* rollout's AssertionError.
C18_Witness ==
    /\ pc = "raised"
    /\ error = "AssertionError: Rollout: got no possible action in non-terminal state"
    /\ iter >= 1
    /\ nodes[Root].n_visits = iter
    /\ hist.before = <<>>
    /\ ~nodes[node_to_rollout].terminal
    /\ Full(state)

RECURSIVE SumSeq(_)
SumSeq(s) == IF s = <<>> THEN 0 ELSE Head(s) + SumSeq(Tail(s))

\* The cells of board b that hold the marker.
CellsOf(b, marker) == {k \in 0..8 : Cell(b, k \div 3, k % 3) = marker}

\* The node rollout was called on.
RolledOut == nodes[node_to_rollout]

\* C19: rollout(node, n) on a non-terminal node with n >= 1 plays n games
\* one after the other.  Each starts from node.state with node.player_to_move
\* to move; each move puts the mover's marker on an empty cell of the
\* current state, an action the game lists, and the mover alternates, until
\* the game signals done.  The reward of a game is the reward of its last
\* transition alone; total_reward is the sum of the rewards of the games
\* finished, and the value returned is the sum over the n games divided by n
\* (rollout_reward is that value's numerator over n).
C19_Rollout ==
    /\ [](pc = "rollout" =>
            /\ ~RolledOut.terminal
            /\ n_rollout_simulations >= 1
            /\ sim = Len(hist.finals) /\ sim < n_rollout_simulations
            /\ total_reward = SumSeq(hist.finals)
            /\ pid = (IF moves % 2 = 0 THEN RolledOut.player_to_move
                      ELSE 1 - RolledOut.player_to_move)
            /\ \A m \in {1, 2} : CellsOf(RolledOut.state, m) \subseteq CellsOf(state, m)
            /\ Cardinality(CellsOf(state, RolledOut.player_to_move + 1))
                  = Cardinality(CellsOf(RolledOut.state, RolledOut.player_to_move + 1))
                    + (moves + 1) \div 2
            /\ Cardinality(CellsOf(state, 2 - RolledOut.player_to_move))
                  = Cardinality(CellsOf(RolledOut.state, 2 - RolledOut.player_to_move))
                    + moves \div 2)
    /\ []((pc = "backprop" /\ ~RolledOut.terminal) =>
            /\ Len(hist.finals) = n_rollout_simulations
            /\ n_rollout_simulations >= 1
            /\ rollout_reward = SumSeq(hist.finals))
    /\ [][/\ (pc = "evaluate" /\ pc' = "rollout") =>
                /\ sim' = 0 /\ total_reward' = 0 /\ moves' = 0
                /\ hist'.finals = <<>>
                /\ state' = RolledOut.state
                /\ pid' = RolledOut.player_to_move
          /\ (pc = "rollout" /\ pc' # "raised") =>
                \E a \in 0..8 :
                    LET r == GameMakeTransition(pid, a, state)
                    IN  /\ LegalAction(state, a)
                        /\ \E k \in 1..Len(GameGetPossibleActions(pid, state)) :
                              GameGetPossibleActions(pid, state)[k] = a
                        /\ r.raised = "none"
                        /\ r.new_state = WithMarker(state, a, pid)
                        /\ IF ~r.done
                           THEN /\ pc' = "rollout"
                                /\ state' = r.new_state
                                /\ pid' = 1 - pid
                                /\ moves' = moves + 1
                                /\ sim' = sim
                                /\ total_reward' = total_reward
                                /\ hist'.finals = hist.finals
                           ELSE /\ hist'.finals = Append(hist.finals, r.reward)
                                /\ IF sim + 1 < n_rollout_simulations
                                   THEN /\ pc' = "rollout"
                                        /\ sim' = sim + 1
                                        /\ total_reward' = total_reward + r.reward
                                        /\ state' = RolledOut.state
                                        /\ pid' = RolledOut.player_to_move
                                        /\ moves' = 0
                                   ELSE /\ pc' = "backprop"
                                        /\ rollout_reward' = total_reward + r.reward]_vars

\* rollout has returned from two games on a node with player 1 to move, the
\* first won by a player, the second with another result.
C19_Witness ==
    /\ pc = "backprop"
    /\ ~RolledOut.terminal
    /\ RolledOut.player_to_move = 1
    /\ n_rollout_simulations = 2
    /\ Len(hist.finals) = 2
    /\ hist.finals[1] # 0
    /\ hist.finals[2] # hist.finals[1]
    /\ rollout_reward = hist.finals[1] + hist.finals[2]

\* Node n was produced by a move that won the game for the player who made
\* it, the player not to move at n.
WonByMover(n) ==
    /\ n # Root
    /\ nodes[n].terminal
    /\ HasLine(nodes[n].state, 2 - nodes[n].player_to_move)

\* Node n was produced by a move that ended the game in a draw.
DrawnNode(n) ==
    /\ n # Root
    /\ nodes[n].terminal
    /\ ~HasLine(nodes[n].state, 2 - nodes[n].player_to_move)

\* The root child get_best_action's answer leads to.
BestChild ==
    LET kids == nodes[Root].children_nodes
    IN  kids[CHOOSE i \in 1..Len(kids) : nodes[Root].actions[i] = best_action]

\* C20: whichever player moves at the root, a terminal node produced by a
\* move that wins for its mover has accumulated_value = -n_visits (mean -1;
\* accumulated_value is held as a numerator over ValueScale), a drawn
\* terminal node has accumulated_value 0, and no node's mean is below -1;
\* so when get_best_action returns on a root one of whose children is such a
\* win, the child of the action returned has mean -1.
C20_MinimisationAtRoot ==
    /\ \A n \in NodeIds :
          /\ WonByMover(n) =>
                /\ nodes[n].terminal_reward = (IF nodes[n].player_to_move = 1 THEN 1 ELSE -1)
                /\ nodes[n].accumulated_value = 0 - nodes[n].n_visits * ValueScale
          /\ DrawnNode(n) =>
                /\ nodes[n].terminal_reward = 0
                /\ nodes[n].accumulated_value = 0
          /\ nodes[n].accumulated_value >= 0 - nodes[n].n_visits * ValueScale
    /\ (pc = "done" /\ \E w \in NodeIds : WonByMover(w) /\ nodes[w].parent = Root) =>
          /\ \A i \in 1..Len(nodes[Root].children_nodes) :
                nodes[nodes[Root].children_nodes[i]].n_visits > 0
          /\ nodes[BestChild].accumulated_value
                = 0 - nodes[BestChild].n_visits * ValueScale

\* get_best_action has returned for player 1 at the root, with two rollout
\* simulations per evaluation: a root child is a win for player 1, visited
\* and with mean -1; the child of the action returned has mean -1 and
\* another root child has a higher mean.
C20_Witness ==
    /\ pc = "done"
    /\ player_idx_to_move = 1
    /\ n_rollout_simulations = 2
    /\ \E w \in NodeIds :
          /\ WonByMover(w) /\ nodes[w].parent = Root
          /\ nodes[w].player_to_move = 0
          /\ nodes[w].n_visits >= 1
          /\ nodes[w].accumulated_value = 0 - nodes[w].n_visits * 2
    /\ nodes[BestChild].accumulated_value = 0 - nodes[BestChild].n_visits * 2
    /\ \E i \in 1..Len(nodes[Root].children_nodes) :
          ~MeanLeq(nodes[Root].children_nodes[i], BestChild)

\* The failures of select_child_node_ucb: its own assertion and numpy's
\* error on the empty array of scores.
SelectionFailures ==
    {"AssertionError: Parent node n_visits must be > 0.",
     "ValueError: zero-size array to reduction operation minimum"}

\* C21: with a game that obeys the interface (TicTacToe), at the start of
\* every iteration every node that has children has n_visits >= 1; the
\* descent of run calls select_child_node_ucb only on visited nodes with
\* children, the call raises nothing, and run never ends with the
\* AssertionError of select_child_node_ucb.
C21_SelectionReachable ==
    game = "TicTacToe" =>
        /\ pc = "for" =>
              \A n \in NodeIds :
                  nodes[n].children_nodes # <<>> => nodes[n].n_visits >= 1
        /\ (pc = "select" /\ nodes[node].children_nodes # <<>>) =>
              /\ nodes[node].n_visits >= 1
              /\ SelectChildNodeUcb(node).raised = "none"
              /\ SelectChildNodeUcb(node).indices # {}
        /\ pc = "raised" => error \notin SelectionFailures

\* In its fourth iteration or later the descent has passed the root and is
\* about to call select_child_node_ucb on a node below it.
C21_Witness ==
    /\ game = "TicTacToe"
    /\ pc = "select"
    /\ iter >= 3
    /\ node # Root
    /\ nodes[node].children_nodes # <<>>
    /\ nodes[node].n_visits >= 1
    /\ nodes[node].n_visits < nodes[Root].n_visits

\* The root's children with n_visits = v.
RootChildrenVisited(v) ==
    {i \in 1..Len(nodes[Root].children_nodes) :
        nodes[nodes[Root].children_nodes[i]].n_visits = v}

\* After k completed iterations, 1 <= k <= the number A of legal actions of
\* the root state, the root has A children, k of them with n_visits 1 and
\* the others with n_visits 0; in each of the first A iterations the chain
\* from the node evaluated to the root passes a root child that had no visit.
FirstVisitsDistinct ==
    /\ (BetweenIterations /\ 1 <= iter /\ iter <= Len(RootActions)) =>
          /\ Len(nodes[Root].children_nodes) = Len(RootActions)
          /\ Cardinality(RootChildrenVisited(1)) = iter
          /\ Cardinality(RootChildrenVisited(0)) = Len(RootActions) - iter
    /\ (pc = "backprop" /\ iter < Len(RootActions)) =>
          \E c \in ParentChain(nodes, node_to_rollout) :
              /\ nodes[c].parent = Root
              /\ hist.before[c].n_visits = 0

\* After a budget of at least A every root child is visited and
\* get_best_action divides by no zero.
BudgetCoversRoot ==
    (RunReturned /\ RootActions # <<>> /\ n_tree_iterations >= Len(RootActions)) =>
        /\ RootChildrenVisited(0) = {}
        /\ PickEnded => pc = "done"

\* C22 as stated: the first A iterations visit distinct root children, a
\* budget of at least A leaves every root child visited, and with a budget
\* below A some root child has n_visits = 0.
C22_Original ==
    /\ FirstVisitsDistinct
    /\ BudgetCoversRoot
    /\ (RunReturned /\ n_tree_iterations < Len(RootActions)) =>
          RootChildrenVisited(0) # {}

\* C22 amended: the first A iterations visit distinct root children and a
\* budget of at least A leaves every root child visited, so that every
\* quotient of get_best_action is defined; with a budget b, 1 <= b < A,
\* A - b root children have n_visits = 0 and get_best_action raises
\* ZeroDivisionError; with budget 0 the root has no children, visited or
\* not, and get_best_action raises ValueError at argmin.
C22_FirstVisits ==
    /\ FirstVisitsDistinct
    /\ BudgetCoversRoot
    /\ (RunReturned /\ 1 <= n_tree_iterations
        /\ n_tree_iterations < Len(RootActions)) =>
          /\ Cardinality(RootChildrenVisited(0))
                = Len(RootActions) - n_tree_iterations
          /\ PickEnded => error = "ZeroDivisionError: float division by zero"
    /\ (RunReturned /\ n_tree_iterations = 0) =>
          /\ nodes[Root].children_nodes = <<>>
          /\ PickEnded => error = "ValueError: attempt to get argmin of an empty sequence"

\* run has returned from a budget equal to the three legal actions of the
\* root state: each root child has exactly one visit.
C22_Witness ==
    /\ pc = "returned"
    /\ Len(RootActions) = 3
    /\ n_tree_iterations = 3
    /\ iter = 3
    /\ Cardinality(RootChildrenVisited(1)) = 3

\* The sum of n_visits over the children of node n.
RECURSIVE VisitsOf(_)
VisitsOf(kids) ==
    IF kids = <<>> THEN 0 ELSE nodes[Head(kids)].n_visits + VisitsOf(Tail(kids))

\* n_visits of node n beyond the visits of its children: the evaluations
\* made at n itself.
OwnVisits(n) == nodes[n].n_visits - VisitsOf(nodes[n].children_nodes)

\* C23: after every completed iteration the root's n_visits is the sum of
\* its children's; a node below the root that has children has n_visits
\* equal to that sum or one above it; a non-terminal node without children
\* has n_visits at most 1.
C23_VisitAccounting ==
    (BetweenIterations /\ iter >= 1) =>
        /\ OwnVisits(Root) = 0
        /\ \A n \in NodeIds :
              /\ (n # Root /\ nodes[n].children_nodes # <<>>) =>
                    OwnVisits(n) \in {0, 1}
              /\ (~nodes[n].terminal /\ nodes[n].children_nodes = <<>>) =>
                    nodes[n].n_visits <= 1

\* After four iterations the tree holds a node below the root expanded at
\* its first visit, one expanded after an evaluation of its own, a visited
\* terminal leaf and a non-terminal leaf evaluated once.
C23_Witness ==
    /\ pc = "for"
    /\ iter = 4
    /\ OwnVisits(Root) = 0
    /\ \E a, b, t, l \in NodeIds :
          /\ a # Root /\ nodes[a].children_nodes # <<>> /\ OwnVisits(a) = 0
          /\ b # Root /\ nodes[b].children_nodes # <<>> /\ OwnVisits(b) = 1
          /\ nodes[t].terminal /\ nodes[t].n_visits >= 1
          /\ ~nodes[l].terminal /\ nodes[l].children_nodes = <<>>
          /\ nodes[l].n_visits = 1

\* The number of empty cells of board b.
Empties(b) == Cardinality(CellsOf(b, 0))

\* The number of moves between the root and node n.
Depth(n) == Cardinality(ParentChain(nodes, n)) - 1

\* A call of run is under way.
Running == pc \in {"for", "select", "evaluate", "rollout", "backprop"}

\* A measure of what a call of run has left to do: the iterations left,
\* then, within an iteration, the stage reached and the empty cells of the
\* board the descent or the rollout is at, the simulations left, and the
\* nodes the backpropagation has left to walk.
WorkLeft ==
    IF ~Running THEN 0
    ELSE (n_tree_iterations - iter) * 2000 + 1
         + (CASE pc = "for" -> 1500
              [] pc = "select" -> 1100 + Empties(nodes[node].state)
              [] pc = "evaluate" -> 1000
              [] pc = "rollout" ->
                    20 + (n_rollout_simulations - sim) * 10 + Empties(state)
              [] pc = "backprop" ->
                    IF node = NoNode THEN 0 ELSE Depth(node) + 1)

\* C24: in tic-tac-toe every move of a rollout and every move into a tree
\* node takes one empty cell; a state the game has not signalled done has an
\* empty cell, hence a legal action, so no game lasts more than 9 moves
\* from the empty board and rollout's 'no possible action' AssertionError is
\* never raised; a node's depth is the number of cells filled since the
\* root state, at most 9; with at least one rollout simulation and a legal
\* action at the root, run raises nothing.  Every rollout and every call of
\* run ends: every step of a call under way lowers WorkLeft, a natural
\* number, so no call takes infinitely many steps.
C24_Termination ==
    /\ [](game = "TicTacToe" =>
            /\ pc = "rollout" =>
                  /\ Empties(state) >= 1
                  /\ GameGetPossibleActions(pid, state) # <<>>
                  /\ Empties(state) = Empties(RolledOut.state) - moves
            /\ error # "AssertionError: Rollout: got no possible action in non-terminal state"
            /\ \A n \in NodeIds :
                  /\ Depth(n) = Empties(root_state) - Empties(nodes[n].state)
                  /\ Depth(n) <= 9
                  /\ ~nodes[n].terminal /\ n # Root => Empties(nodes[n].state) >= 1
            /\ (pc = "raised" /\ ~RunReturned /\ n_rollout_simulations >= 1) =>
                  RootActions = <<>>
            /\ WorkLeft >= 0)
    /\ [][game = "TicTacToe" =>
             /\ (pc = "rollout" /\ pc' = "rollout" /\ sim' = sim) =>
                   /\ Empties(state') = Empties(state) - 1
                   /\ moves' = moves + 1
             /\ Running => WorkLeft' < WorkLeft]_vars

\* run has returned from one iteration on the empty board whose rollout was
\* a drawn game: nine moves, the first into the node evaluated and eight in
\* the rollout.
C24_Witness ==
    /\ game = "TicTacToe"
    /\ pc = "returned"
    /\ root_state = InitialState
    /\ n_tree_iterations = 1
    /\ n_rollout_simulations = 1
    /\ Depth(node_to_rollout) = 1
    /\ Empties(nodes[node_to_rollout].state) = 8
    /\ hist.finals = <<0>>

====
